---------------------------- MODULE Spec2Model ----------------------------
(***************************************************************************)
(* A model of the hover tool (lsp_get_hover) and the move-file tool        *)
(* (move_file) of typescript-mcp.                                          *)
(*                                                                         *)
(* JavaScript strings are modelled as sequences of one-character strings,  *)
(* so that split, indexOf, includes, replace, the template literals and    *)
(* the path functions are computed character by character.                 *)
(***************************************************************************)
EXTENDS Integers, Sequences, FiniteSets, TLC

VARIABLES
    \* the hover tool
    session,    \* whether an active client exists
    disk,       \* the file on disk
    writes,     \* rewrites of the file so far
    docs,       \* the text the server holds, by URI
    hpc,        \* where each hover request stands
    hreq,       \* each request's arguments
    hctx,       \* each request's locals: fileUri, fileContent, targetLine, symbolPosition
    hcalls,     \* each request's calls on the client and its timer, in order
    hans,       \* the server's answer to each request's getHover
    hres,       \* what each request returned
    hovl,       \* whether another request reopened the document meanwhile
    hsrc,       \* the file as it was on disk when each request read it
    \* formatHoverContents alone
    fin,        \* the contents given
    fout,       \* the string returned
    \* handleMoveFile
    mpc,        \* where each call of the handler stands
    mreq,       \* each call's arguments
    mcalls,     \* each call's calls on the project model, in order
    mval,       \* the move primitive's result, held across the save
    mout,       \* how each call's promise settled
    mdisk,      \* the files on disk when each call was entered and when it settled
    pmem,       \* the project's files in memory
    pdisk,      \* the project's files on disk
    \* formatMoveFileResult
    rpc,        \* where the report stands
    rin,        \* the report's arguments
    rslot,      \* the promise of each changed file's block
    rreads,     \* the files fs.readFile was called for, in order
    rorder,     \* the changed files' indices in the order their blocks settled
    rfail,      \* the indices whose read failed
    rout        \* how the report's promise settled

hoverVars ==
    <<session, disk, writes, docs, hpc, hreq, hctx, hcalls, hans, hres, hovl, hsrc>>

fmtVars == <<fin, fout>>

moveVars == <<mpc, mreq, mcalls, mval, mout, mdisk, pmem, pdisk>>

reportVars == <<rpc, rin, rslot, rreads, rorder, rfail, rout>>

vars == <<hoverVars, fmtVars, moveVars, reportVars>>

(***************************************************************************)
(* Bounds of the model.                                                    *)
(***************************************************************************)
\* longest string drawn as a hover content fragment
MaxStrLen == 1
\* longest fragment array drawn as hover contents
MaxFrags == 2
\* hover requests that may be in flight together
NumRequests == 2
\* times the file is rewritten or deleted on disk while requests run
MaxWrites == 1
\* calls of the move tool, one after the other
MaxMoves == 2
\* longest list of changed files a report is asked for
MaxChanged == 3

(***************************************************************************)
(* String primitives (JavaScript built-ins used by the tools).             *)
(***************************************************************************)
NL == "\n"

Range(s) == {s[i] : i \in DOMAIN s}

Min(S) == CHOOSE x \in S : \A y \in S : x <= y

Max(S) == CHOOSE x \in S : \A y \in S : x >= y

\* the strings of length at most n over alphabet A
StringsUpTo(A, n) == UNION {[1..k -> A] : k \in 0..n}

\* the concatenation of a sequence of strings
RECURSIVE Cat(_)
Cat(parts) ==
    IF parts = <<>> THEN <<>> ELSE Head(parts) \o Cat(Tail(parts))

\* Array.prototype.join(sep)
RECURSIVE JoinWith(_, _)
JoinWith(parts, sep) ==
    IF parts = <<>> THEN <<>>
    ELSE IF Len(parts) = 1 THEN parts[1]
    ELSE parts[1] \o sep \o JoinWith(Tail(parts), sep)

\* String.prototype.split(ch) for a one-character separator: "" splits to [""]
RECURSIVE SplitOn(_, _)
SplitOn(s, ch) ==
    IF \A i \in DOMAIN s : s[i] # ch THEN <<s>>
    ELSE LET k == Min({i \in DOMAIN s : s[i] = ch})
         IN  <<SubSeq(s, 1, k - 1)>> \o SplitOn(SubSeq(s, k + 1, Len(s)), ch)

\* the zero-based offsets at which pat occurs in s
Occurrences(s, pat) ==
    {i \in 0..(Len(s) - Len(pat)) : SubSeq(s, i + 1, i + Len(pat)) = pat}

\* String.prototype.indexOf(pat): zero-based, -1 when absent
IndexOf(s, pat) ==
    IF Occurrences(s, pat) = {} THEN -1 ELSE Min(Occurrences(s, pat))

\* String.prototype.includes(pat)
Includes(s, pat) == Occurrences(s, pat) # {}

\* String.prototype.startsWith(pat)
StartsWith(s, pat) == Len(pat) <= Len(s) /\ SubSeq(s, 1, Len(pat)) = pat

\* the backquote character (written as a token)
BackQuote == "<backquote>"

\* the replacement patterns of String.prototype.replace for a string pattern:
\* $$ is a dollar sign, $& the matched text, $ followed by a backquote the
\* text before the match, $' the text after it; any other $ stands for itself
RECURSIVE Substitution(_, _, _, _)
Substitution(rep, matched, before, after) ==
    IF rep = <<>> THEN <<>>
    ELSE IF rep[1] = "$" /\ Len(rep) >= 2
                /\ rep[2] \in {"$", "&", BackQuote, "'"}
         THEN (CASE rep[2] = "$" -> <<"$">>
                 [] rep[2] = "&" -> matched
                 [] rep[2] = BackQuote -> before
                 [] rep[2] = "'" -> after)
              \o Substitution(SubSeq(rep, 3, Len(rep)), matched, before, after)
         ELSE <<rep[1]>> \o Substitution(Tail(rep), matched, before, after)

\* String.prototype.replace(pat, rep) with a string pattern: the first
\* occurrence only, rep read as a replacement pattern
ReplaceFirst(s, pat, rep) ==
    LET i == IndexOf(s, pat)
    IN  IF i < 0 THEN s
        ELSE LET before == SubSeq(s, 1, i)
                 after  == SubSeq(s, i + Len(pat) + 1, Len(s))
             IN  before \o Substitution(rep, pat, before, after) \o after

\* String.prototype.replace(/c/g, d) for single characters c and d
ReplaceAllChars(s, c, d) == [i \in DOMAIN s |-> IF s[i] = c THEN d ELSE s[i]]

DigitChars == <<"0", "1", "2", "3", "4", "5", "6", "7", "8", "9">>

\* String(n) / `${n}` for a natural number
RECURSIVE Digits(_)
Digits(n) ==
    IF n < 10 THEN <<DigitChars[n + 1]>>
    ELSE Digits(n \div 10) \o <<DigitChars[(n % 10) + 1]>>

\* a modelled string as a TLA+ string, for reading and comparing
RECURSIVE Str(_)
Str(s) == IF s = <<>> THEN "" ELSE Head(s) \o Str(Tail(s))

(***************************************************************************)
(* Hover contents: MarkedString | MarkedString[] | MarkupContent.          *)
(***************************************************************************)
PlainString(s) == [shape |-> "string", text |-> s]

LanguageString(l, s) == [shape |-> "marked", language |-> l, value |-> s]

FragmentArray(items) == [shape |-> "array", items |-> items]

MarkupContent(k, s) == [shape |-> "markup", kind |-> k, value |-> s]

\* the array branch's map callback: a string as it is, else its value
FragmentValue(content) ==
    IF content.shape = "string" THEN content.text ELSE content.value

FragmentValues(items) == [i \in DOMAIN items |-> FragmentValue(items[i])]

\* faulty variant, used to test the properties: fragments concatenated with no separator
formatHoverContentsNoSep(contents) ==
    IF contents.shape = "string" THEN contents.text
    ELSE IF contents.shape = "array"
         THEN Cat(FragmentValues(contents.items))
    ELSE IF contents.shape \in {"markup", "marked"} THEN contents.value
    ELSE <<>>

formatHoverContents(contents) ==
    IF contents.shape = "string" THEN contents.text
    ELSE IF contents.shape = "array"
         THEN JoinWith(FragmentValues(contents.items), <<NL>>)
    ELSE IF contents.shape \in {"markup", "marked"} THEN contents.value
    ELSE <<>>

(***************************************************************************)
(* node:path (POSIX) as the tools use it.                                  *)
(***************************************************************************)
SLASH == "/"

\* the working directory path.resolve falls back to for relative arguments
Cwd == <<"/", "w">>

IsAbsolute(p) == p # <<>> /\ p[1] = SLASH

NonEmpty(seg) == seg # <<>>

Segments(p) == SelectSeq(SplitOn(p, SLASH), NonEmpty)

\* "." dropped and ".." resolved against the segments kept so far
RECURSIVE NormSegs(_, _, _)
NormSegs(segs, acc, abs) ==
    IF segs = <<>> THEN acc
    ELSE LET h == Head(segs)
             t == Tail(segs)
         IN  IF h = <<".">> THEN NormSegs(t, acc, abs)
             ELSE IF h = <<".", ".">>
                  THEN IF acc # <<>> /\ acc[Len(acc)] # <<".", ".">>
                       THEN NormSegs(t, SubSeq(acc, 1, Len(acc) - 1), abs)
                       ELSE IF abs THEN NormSegs(t, acc, abs)
                       ELSE NormSegs(t, Append(acc, h), abs)
             ELSE NormSegs(t, Append(acc, h), abs)

\* path.normalize
pathNormalize(p) ==
    IF p = <<>> THEN <<".">>
    ELSE LET abs  == IsAbsolute(p)
             body == JoinWith(NormSegs(Segments(p), <<>>, abs), <<SLASH>>)
             trail == IF p[Len(p)] = SLASH THEN <<SLASH>> ELSE <<>>
         IN  IF body = <<>>
             THEN IF abs THEN <<SLASH>> ELSE <<".">> \o trail
             ELSE IF abs THEN <<SLASH>> \o body \o trail
             ELSE body \o trail

\* path.resolve(from, to): an absolute path without a trailing slash
pathResolve(from, to) ==
    LET full == IF IsAbsolute(to) THEN to
                ELSE IF IsAbsolute(from) THEN from \o <<SLASH>> \o to
                ELSE Cwd \o <<SLASH>> \o from \o <<SLASH>> \o to
    IN  <<SLASH>> \o JoinWith(NormSegs(Segments(full), <<>>, TRUE), <<SLASH>>)

\* path.join(a, b)
pathJoin(a, b) ==
    IF a = <<>> THEN pathNormalize(b)
    ELSE IF b = <<>> THEN pathNormalize(a)
    ELSE pathNormalize(a \o <<SLASH>> \o b)

\* p without its trailing slashes (a lone "/" is kept)
RECURSIVE StripTrailingSlashes(_)
StripTrailingSlashes(p) ==
    IF Len(p) > 1 /\ p[Len(p)] = SLASH
    THEN StripTrailingSlashes(SubSeq(p, 1, Len(p) - 1))
    ELSE p

LastSlash(p) ==
    IF \A i \in DOMAIN p : p[i] # SLASH THEN 0
    ELSE Max({i \in DOMAIN p : p[i] = SLASH})

\* path.dirname: the path up to the last slash that has a character other
\* than a slash after it, the first character not being looked at
pathDirname(p) ==
    LET ends == {i \in 2..Len(p) :
                    p[i] = SLASH /\ \E j \in (i + 1)..Len(p) : p[j] # SLASH}
    IN  IF p = <<>> THEN <<".">>
        ELSE IF ends = {} THEN IF IsAbsolute(p) THEN <<SLASH>> ELSE <<".">>
        ELSE IF IsAbsolute(p) /\ Max(ends) = 2 THEN <<SLASH, SLASH>>
        ELSE SubSeq(p, 1, Max(ends) - 1)

\* path.basename(p) with no suffix argument
BaseOf(p) ==
    LET q == StripTrailingSlashes(p)
    IN  IF q = <<SLASH>> THEN <<>> ELSE SubSeq(q, LastSlash(q) + 1, Len(q))

\* path.extname
pathExtname(p) ==
    LET b    == BaseOf(p)
        dots == {i \in DOMAIN b : b[i] = "."}
    IN  IF dots = {} \/ b = <<".", ".">> THEN <<>>
        ELSE IF Max(dots) = 1 THEN <<>>
        ELSE SubSeq(b, Max(dots), Len(b))

\* path.basename(p, ext): the last segment without ext when it ends in ext
\* and is longer; when the scan runs out inside ext (the segment is a proper
\* end of ext, or there is no segment) the rest of the path, trailing slashes
\* included; ext plays no part when it is empty or longer than the path
pathBasename(p, ext) ==
    LET b        == BaseOf(p)
        nonSlash == {i \in DOMAIN p : p[i] # SLASH}
        last     == Max(nonSlash)
        slashes  == {i \in 1..last : p[i] = SLASH}
        start    == IF slashes = {} THEN 0 ELSE Max(slashes)
        seg      == SubSeq(p, start + 1, last)
    IN  IF ext = <<>> \/ Len(ext) > Len(p) THEN b
        ELSE IF ext = p THEN <<>>
        ELSE IF nonSlash = {} THEN p
        ELSE IF Len(seg) > Len(ext)
                /\ SubSeq(seg, Len(seg) - Len(ext) + 1, Len(seg)) = ext
             THEN SubSeq(seg, 1, Len(seg) - Len(ext))
        ELSE IF Len(seg) < Len(ext)
                /\ SubSeq(ext, Len(ext) - Len(seg) + 1, Len(ext)) = seg
             THEN SubSeq(p, start + 1, Len(p))
        ELSE seg

\* the length of the longest common prefix of two segment lists
RECURSIVE CommonPrefix(_, _)
CommonPrefix(a, b) ==
    IF a = <<>> \/ b = <<>> \/ Head(a) # Head(b) THEN 0
    ELSE 1 + CommonPrefix(Tail(a), Tail(b))

\* path.relative(from, to)
pathRelative(from, to) ==
    LET f  == Segments(pathResolve(<<>>, from))
        t  == Segments(pathResolve(<<>>, to))
        c  == CommonPrefix(f, t)
        up == [i \in 1..(Len(f) - c) |-> <<".", ".">>]
    IN  JoinWith(up \o SubSeq(t, c + 1, Len(t)), <<SLASH>>)

(***************************************************************************)
(* Results (neverthrow) and thrown errors.                                 *)
(***************************************************************************)
Ok(v) == [isOk |-> TRUE, value |-> v]

Err(e) == [isOk |-> FALSE, error |-> e]

\* an exception carrying error.message
Thrown(m) == [thrown |-> m]

IsThrown(x) == "thrown" \in DOMAIN x

(***************************************************************************)
(* The position resolver (text_utils) and the session's client, which the  *)
(* hover tool imports.                                                     *)
(***************************************************************************)
L_LineOutOfRange == <<"L","i","n","e","O","u","t","O","f","R","a","n","g","e",":"," ">>

L_LineNotFound == <<"L","i","n","e","N","o","t","F","o","u","n","d",":"," ">>

L_SymbolNotFoundOnLine == <<"S","y","m","b","o","l","N","o","t","F","o","u","n","d","O","n","L","i","n","e",":"," ">>

L_TargetNotFoundInFile == <<"T","a","r","g","e","t","N","o","t","F","o","u","n","d","I","n","F","i","l","e",":"," ">>

L_NoActiveSession == <<"N","o","A","c","t","i","v","e","S","e","s","s","i","o","n">>

L_ENOENT == <<"E","N","O","E","N","T",":"," ","n","o"," ","s","u","c","h"," ","f","i","l","e"," ","o","r"," ","d","i","r","e","c","t","o","r","y",","," ","o","p","e","n"," ","'">>

\* the message of the error thrown for a file that does not exist
ENOENT(path) == L_ENOENT \o path \o <<"'">>

L_RequestFailed == <<"R","e","q","u","e","s","t","F","a","i","l","e","d">>

\* the line field of a request: absent, a 1-based number, or a string
NoLine == [kind |-> "undefined"]

LineNumber(n) == [kind |-> "number", n |-> n]

LineText(t) == [kind |-> "string", s |-> t]

\* a line number within [1, lineCount] as a zero-based index; a string as the
\* index of the first line containing it
parseLineNumber(lines, line) ==
    IF line.kind = "number"
    THEN IF line.n >= 1 /\ line.n <= Len(lines)
         THEN [lineIndex |-> line.n - 1]
         ELSE [error |-> L_LineOutOfRange \o Digits(line.n)]
    ELSE LET hits == {i \in DOMAIN lines : Includes(lines[i], line.s)}
         IN  IF hits = {} THEN [error |-> L_LineNotFound \o line.s]
             ELSE [lineIndex |-> Min(hits) - 1]

WordChars ==
    {"a","b","c","d","e","f","g","h","i","j","k","l","m","n","o","p","q",
     "r","s","t","u","v","w","x","y","z","_","$"} \cup Range(DigitChars)

\* target occurs at zero-based offset i of lineText as a whole token
WholeTokenAt(lineText, target, i) ==
    /\ (i = 0 \/ lineText[i] \notin WordChars)
    /\ (i + Len(target) = Len(lineText)
        \/ lineText[i + Len(target) + 1] \notin WordChars)

\* the first whole-token occurrence of target, else its first occurrence
findSymbolInLine(lineText, target) ==
    LET occ   == Occurrences(lineText, target)
        whole == {i \in occ : WholeTokenAt(lineText, target, i)}
    IN  IF whole # {} THEN [characterIndex |-> Min(whole)]
        ELSE IF occ # {} THEN [characterIndex |-> Min(occ)]
        ELSE [error |-> L_SymbolNotFoundOnLine \o target]

\* the first line of the file on which target occurs
findTargetInFile(lines, target) ==
    LET hits == {i \in DOMAIN lines : Includes(lines[i], target)}
    IN  IF hits = {} THEN [error |-> L_TargetNotFoundInFile \o target]
        ELSE [lineIndex |-> Min(hits) - 1,
              characterIndex |->
                  findSymbolInLine(lines[Min(hits)], target).characterIndex]

\* getActiveClient(): throws when no session has been established
getActiveClient(active) ==
    IF active THEN [client |-> TRUE] ELSE Thrown(L_NoActiveSession)

\* what the server holds after openDocument(uri, text): the text replaced
openDocument(held, uri, text) ==
    [u \in (DOMAIN held) \cup {uri} |-> IF u = uri THEN text ELSE held[u]]

\* the text the server holds for uri
HeldText(held, uri) ==
    IF uri \in DOMAIN held THEN [open |-> TRUE, text |-> held[uri]]
    ELSE [open |-> FALSE, text |-> <<>>]

(***************************************************************************)
(* The file system as the hover tool reads it: one file that exists or     *)
(* not; every other path is unreadable.                                    *)
(***************************************************************************)
Root == <<"/","r">>

FooTs == <<"f","o","o",".","t","s">>

GoneTs == <<"g","o","n","e",".","t","s">>

Bar == <<"b","a","r">>

FileWith(t) == [exists |-> TRUE, text |-> t]

NoFile == [exists |-> FALSE, text |-> <<>>]

\* "x\nbar": bar on line 2
TextA == <<"x", NL, "b","a","r">>

\* "bar\n": bar on line 1, and an empty last line
TextB == <<"b","a","r", NL>>

DiskStates == {FileWith(TextA), FileWith(TextB), NoFile}

\* readFileSync(path, "utf-8")
readFileSync(d, path) ==
    IF path = pathResolve(Root, FooTs) /\ d.exists THEN [text |-> d.text]
    ELSE Thrown(ENOENT(path))

(***************************************************************************)
(* src/unnamed/part_000: the hover tool.                                   *)
(***************************************************************************)
L_NoHover == <<"N","o"," ","h","o","v","e","r"," ","i","n","f","o","r","m","a","t","i","o","n"," ","a","v","a","i","l","a","b","l","e"," ","f","o","r"," ","\"">>

L_Hover == <<"H","o","v","e","r"," ","i","n","f","o","r","m","a","t","i","o","n"," ","f","o","r"," ","\"">>

L_QuoteAt == <<"\""," ","a","t"," ">>

L_In == <<" ","i","n"," ">>

L_OnLine == <<" ","o","n"," ","l","i","n","e"," ">>

L_FileScheme == <<"f","i","l","e",":","/","/">>

Position(l, c) == [line |-> l, character |-> c]

\* `... for "<target>" at <filePath>:<line+1>:<character+1>`
LocationSuffix(request, targetLine, symbolPosition) ==
    request.target \o L_QuoteAt \o request.filePath \o <<":">>
        \o Digits(targetLine + 1) \o <<":">> \o Digits(symbolPosition + 1)

\* the server's zero-based range made one-based
OneBasedRange(range) ==
    [start |-> Position(range.start.line + 1, range.start.character + 1),
     end   |-> Position(range.end.line + 1, range.end.character + 1)]

\* the fallback range: all lines of the file as it is read now
WholeFileRange(fileContent) ==
    LET lines == SplitOn(fileContent, NL)
    IN  [start |-> Position(1, 1),
         end   |-> Position(Len(lines), Len(lines[Len(lines)]))]

\* faulty variant, used to test the properties: no hover information reported as a failure
formatHoverResultNullIsError(result, request, targetLine, symbolPosition, d) ==
    IF result.kind = "null"
    THEN Err(L_NoHover \o LocationSuffix(request, targetLine, symbolPosition))
    ELSE Ok([message |-> L_Hover
                           \o LocationSuffix(request, targetLine, symbolPosition),
             hover   |-> [isNull   |-> FALSE,
                          contents |-> formatHoverContents(result.contents),
                          range    |-> OneBasedRange(result.range)]])

\* formatHoverResult; d is the file on disk when it runs
formatHoverResult(result, request, targetLine, symbolPosition, d) ==
    IF result.kind = "null"
    THEN Ok([message |-> L_NoHover
                           \o LocationSuffix(request, targetLine, symbolPosition),
             hover   |-> [isNull |-> TRUE]])
    ELSE LET formattedContents == formatHoverContents(result.contents)
             rd == readFileSync(d, pathResolve(request.root, request.filePath))
         IN  IF ~result.hasRange /\ IsThrown(rd) THEN rd
             ELSE Ok([message |-> L_Hover
                           \o LocationSuffix(request, targetLine, symbolPosition),
                      hover   |-> [isNull   |-> FALSE,
                                   contents |-> formattedContents,
                                   range    |-> IF result.hasRange
                                                THEN OneBasedRange(result.range)
                                                ELSE WholeFileRange(rd.text)]])

\* what the synchronous part of a hover request ends in: an error returned, or
\* the document opened at a resolved position
Failed(e) == [kind |-> "failed", error |-> e]

Opened(uri, text, l, c) ==
    [kind |-> "opened", uri |-> uri, text |-> text, line |-> l, character |-> c]

\* getHoverWithoutLine up to its first await
getHoverWithoutLine(request, active, d) ==
    LET client       == getActiveClient(active)
        absolutePath == pathResolve(request.root, request.filePath)
        rd           == readFileSync(d, absolutePath)
    IN  IF IsThrown(client) THEN Failed(client.thrown)
        ELSE IF IsThrown(rd) THEN Failed(rd.thrown)
        ELSE LET fileUri == L_FileScheme \o absolutePath
                 lines   == SplitOn(rd.text, NL)
                 targetResult == findTargetInFile(lines, request.target)
             IN  IF "error" \in DOMAIN targetResult
                 THEN Failed(targetResult.error \o L_In \o request.filePath)
                 ELSE Opened(fileUri, rd.text, targetResult.lineIndex,
                             targetResult.characterIndex)

\* getHover with a line given, up to its first await
getHoverWithLine(request, active, d) ==
    LET client       == getActiveClient(active)
        absolutePath == pathResolve(request.root, request.filePath)
        rd           == readFileSync(d, absolutePath)
    IN  IF IsThrown(client) THEN Failed(client.thrown)
        ELSE IF IsThrown(rd) THEN Failed(rd.thrown)
        ELSE LET fileUri == L_FileScheme \o absolutePath
                 lines   == SplitOn(rd.text, NL)
                 lineResult == parseLineNumber(lines, request.line)
             IN  IF "error" \in DOMAIN lineResult
                 THEN Failed(lineResult.error \o L_In \o request.filePath)
                 ELSE LET targetLine   == lineResult.lineIndex
                          lineText     == lines[targetLine + 1]
                          symbolResult == findSymbolInLine(lineText, request.target)
                      IN  IF "error" \in DOMAIN symbolResult
                          THEN Failed(symbolResult.error \o L_OnLine
                                          \o Digits(targetLine + 1))
                          ELSE Opened(fileUri, rd.text, targetLine,
                                      symbolResult.characterIndex)

\* getHover up to its first await
getHover(request, active, d) ==
    IF request.line.kind = "undefined"
    THEN getHoverWithoutLine(request, active, d)
    ELSE getHoverWithLine(request, active, d)

(***************************************************************************)
(* Hover requests as processes: the synchronous part, the settling delay,  *)
(* the query and the server's answer.                                      *)
(***************************************************************************)
Requests == 1..NumRequests

HoverRequest(f, l, t) ==
    [root |-> Root, filePath |-> f, line |-> l, target |-> t]

HoverRequests ==
    { HoverRequest(FooTs, NoLine, Bar),
      HoverRequest(FooTs, LineNumber(1), Bar),
      HoverRequest(FooTs, LineNumber(2), Bar),
      HoverRequest(FooTs, LineNumber(3), Bar),
      HoverRequest(FooTs, LineText(<<"b","a">>), Bar),
      HoverRequest(FooTs, LineText(<<"q">>), Bar),
      HoverRequest(FooTs, NoLine, <<"q">>),
      HoverRequest(GoneTs, NoLine, Bar) }

NoRequest == [root |-> <<>>, filePath |-> <<>>, line |-> NoLine, target |-> <<>>]

NoContext == [kind |-> "none"]

NoAnswer == [kind |-> "none"]

NoResult == [pending |-> TRUE]

\* what the server may answer to getHover(uri, position)
ServerAnswers(position) ==
    LET here == [start |-> position,
                 end   |-> Position(position.line, position.character + 3)]
        markup == MarkupContent("plaintext", <<"T">>)
        marked == LanguageString(<<"t", "s">>, <<"T">>)
    IN  { [kind |-> "null"],
          [kind |-> "hover", contents |-> markup, hasRange |-> TRUE, range |-> here],
          [kind |-> "hover", contents |-> marked, hasRange |-> FALSE, range |-> here],
          [kind |-> "reject", message |-> L_RequestFailed] }

OpenCall(uri, text) == [op |-> "openDocument", uri |-> uri, text |-> text]

DelayCall == [op |-> "setTimeout"]

HoverCall(uri, position, held) ==
    [op |-> "getHover", uri |-> uri, position |-> position, held |-> held]

HoverInitial ==
    /\ session \in BOOLEAN
    /\ disk \in {FileWith(TextA), FileWith(TextB)}
    /\ writes = 0
    /\ docs = <<>>
    /\ hpc = [r \in Requests |-> "idle"]
    /\ hreq = [r \in Requests |-> NoRequest]
    /\ hctx = [r \in Requests |-> NoContext]
    /\ hcalls = [r \in Requests |-> <<>>]
    /\ hans = [r \in Requests |-> NoAnswer]
    /\ hres = [r \in Requests |-> NoResult]
    /\ hovl = [r \in Requests |-> FALSE]
    /\ hsrc = [r \in Requests |-> NoFile]

\* the hover tool never called
HoverUnused ==
    /\ session = FALSE
    /\ disk = FileWith(TextA)
    /\ writes = 0
    /\ docs = <<>>
    /\ hpc = [r \in Requests |-> "idle"]
    /\ hreq = [r \in Requests |-> NoRequest]
    /\ hctx = [r \in Requests |-> NoContext]
    /\ hcalls = [r \in Requests |-> <<>>]
    /\ hans = [r \in Requests |-> NoAnswer]
    /\ hres = [r \in Requests |-> NoResult]
    /\ hovl = [r \in Requests |-> FALSE]
    /\ hsrc = [r \in Requests |-> NoFile]

\* faulty variant, used to test the properties: the resolved line passed in place of the file's text
OpenedTextLineOnly(started) == SplitOn(started.text, NL)[started.line + 1]

\* the text passed to client.openDocument(fileUri, fileContent)
OpenedText(started) == started.text

\* getHover / getHoverWithoutLine from entry to the settling delay's await;
\* requests are numbered in the order they arrive
HoverStart(r, request) ==
    /\ hpc[r] = "idle"
    /\ \A q \in Requests : q < r => hpc[q] # "idle"
    /\   LET started == getHover(request, session, disk)
         IN  /\ hreq' = [hreq EXCEPT ![r] = request]
             /\ hsrc' = [hsrc EXCEPT ![r] =
                           IF request.filePath = FooTs THEN disk ELSE NoFile]
             /\ IF started.kind = "failed"
                THEN /\ hpc' = [hpc EXCEPT ![r] = "done"]
                     /\ hres' = [hres EXCEPT ![r] = Err(started.error)]
                     /\ UNCHANGED <<docs, hctx, hcalls, hovl>>
                ELSE /\ hpc' = [hpc EXCEPT ![r] = "sleeping"]
                     /\ docs' = openDocument(docs, started.uri, OpenedText(started))
                     /\ hctx' = [hctx EXCEPT ![r] = started]
                     /\ hcalls' = [hcalls EXCEPT ![r] =
                                     <<OpenCall(started.uri, OpenedText(started))>>]
                     /\ hovl' = [q \in Requests |->
                                   IF /\ q # r
                                      /\ hpc[q] \in {"sleeping", "ready"}
                                      /\ hctx[q].uri = started.uri
                                   THEN TRUE ELSE hovl[q]]
                     /\ UNCHANGED hres
    /\ UNCHANGED <<session, disk, writes, hans, fmtVars, moveVars, reportVars>>

\* the one-second timer of `await new Promise(r => setTimeout(r, 1000))` fires
HoverDelayElapsed(r) ==
    /\ hpc[r] = "sleeping"
    /\ hpc' = [hpc EXCEPT ![r] = "ready"]
    /\ hcalls' = [hcalls EXCEPT ![r] = Append(@, DelayCall)]
    /\ UNCHANGED <<session, disk, writes, docs, hreq, hctx, hans, hres, hovl, hsrc, fmtVars, moveVars, reportVars>>

\* faulty variant, used to test the properties: the query issued without awaiting the timer
HoverIssueQueryNoWait(r) ==
    /\ hpc[r] \in {"sleeping", "ready"}
    /\ hpc' = [hpc EXCEPT ![r] = "querying"]
    /\ hcalls' = [hcalls EXCEPT ![r] =
                    Append(@, HoverCall(hctx[r].uri,
                                        Position(hctx[r].line, hctx[r].character),
                                        HeldText(docs, hctx[r].uri)))]
    /\ UNCHANGED <<session, disk, writes, docs, hreq, hctx, hans, hres, hovl, hsrc, fmtVars, moveVars, reportVars>>

\* the request resumes and calls client.getHover(fileUri, {line, character})
HoverIssueQuery(r) ==
    /\ hpc[r] = "ready"
    /\ hpc' = [hpc EXCEPT ![r] = "querying"]
    /\ hcalls' = [hcalls EXCEPT ![r] =
                    Append(@, HoverCall(hctx[r].uri,
                                        Position(hctx[r].line, hctx[r].character),
                                        HeldText(docs, hctx[r].uri)))]
    /\ UNCHANGED <<session, disk, writes, docs, hreq, hctx, hans, hres, hovl, hsrc, fmtVars, moveVars, reportVars>>

\* what the request returns once the server has answered
HoverReturn(request, ctx, answer, d) ==
    IF answer.kind = "reject" THEN Err(answer.message)
    ELSE LET formatted == formatHoverResult(answer, request, ctx.line,
                                            ctx.character, d)
         IN  IF IsThrown(formatted) THEN Err(formatted.thrown) ELSE formatted

\* the server answers and the request returns
HoverAnswer(r) ==
    /\ hpc[r] = "querying"
    /\ \E answer \in ServerAnswers(Position(hctx[r].line, hctx[r].character)) :
         /\ hans' = [hans EXCEPT ![r] = answer]
         /\ hres' = [hres EXCEPT ![r] = HoverReturn(hreq[r], hctx[r], answer, disk)]
    /\ hpc' = [hpc EXCEPT ![r] = "done"]
    /\ UNCHANGED <<session, disk, writes, docs, hreq, hctx, hcalls, hovl, hsrc, fmtVars, moveVars, reportVars>>

\* the file is rewritten or deleted on disk
RewriteFile ==
    /\ writes < MaxWrites
    /\ \E d \in DiskStates \ {disk} : disk' = d
    /\ writes' = writes + 1
    /\ UNCHANGED <<session, docs, hpc, hreq, hctx, hcalls, hans, hres, hovl, hsrc, fmtVars, moveVars, reportVars>>


(***************************************************************************)
(* src/src/ts/tools/ts_move_file.ts: the move-file tool.  The project      *)
(* model it drives (project_cache, commands/move_file) holds the tracked   *)
(* files in memory and writes them to disk on save.                        *)
(***************************************************************************)
L_FileNotFound == <<"F","i","l","e"," ","n","o","t"," ","f","o","u","n","d",":"," ">>

L_DestinationExists == <<"D","e","s","t","i","n","a","t","i","o","n","E","x","i","s","t","s",":"," ">>

L_SourceNotTracked == <<"S","o","u","r","c","e","N","o","t","T","r","a","c","k","e","d",":"," ">>

L_Moved == <<"M","o","v","e","d"," ">>

L_To == <<" ","t","o"," ">>

L_EACCES == <<"E","A","C","C","E","S">>

SrcA == <<"s","r","c","/","a",".","t","s">>

SrcB == <<"s","r","c","/","b",".","t","s">>

SrcC == <<"s","r","c","/","c",".","t","s">>

SrcSubA == <<"s","r","c","/","s","u","b","/","a",".","t","s">>

SrcNone == <<"s","r","c","/","n","o","n","e",".","t","s">>

\* a tracked file: the file it imports, if any
Imports(target) == [imports |-> target]

\* the project's files before any move: b.ts imports a.ts
InitialFiles ==
    LET a == pathJoin(Root, SrcA)
        b == pathJoin(Root, SrcB)
    IN  [f \in {a, b} |-> IF f = b THEN Imports(a) ELSE Imports(<<>>)]

\* getOrCreateSourceFileWithRefresh: the file's content read from disk into
\* the project; throws when the file cannot be read
getOrCreateSourceFileWithRefresh(mem, dsk, file) ==
    IF file \notin DOMAIN dsk THEN Thrown(ENOENT(file))
    ELSE [mem |-> [f \in (DOMAIN mem) \cup {file} |->
                      IF f = file THEN dsk[file] ELSE mem[f]]]

\* the tracked files that import file, as a list
RECURSIVE ListOf(_)
ListOf(S) ==
    IF S = {} THEN <<>>
    ELSE LET x == CHOOSE y \in S : TRUE IN <<x>> \o ListOf(S \ {x})

\* moveFile: the move primitive, on the in-memory project only
moveFile(mem, oldFilename, newFilename, overwrite) ==
    IF oldFilename \notin DOMAIN mem
    THEN [result |-> Err(L_SourceNotTracked \o oldFilename), mem |-> mem]
    ELSE IF newFilename \in DOMAIN mem /\ ~overwrite
    THEN [result |-> Err(L_DestinationExists \o newFilename), mem |-> mem]
    ELSE LET importers == {f \in DOMAIN mem : f # oldFilename
                                              /\ f # newFilename
                                              /\ mem[f].imports = oldFilename}
             kept == ((DOMAIN mem) \ {oldFilename}) \cup {newFilename}
         IN  [result |-> Ok([message |-> L_Moved \o oldFilename \o L_To \o newFilename,
                             changedFiles |-> <<oldFilename>> \o ListOf(importers)]),
              mem |-> [f \in kept |->
                         IF f = newFilename THEN mem[oldFilename]
                         ELSE IF f \in importers THEN Imports(newFilename)
                         ELSE mem[f]]]

MoveRequest(o, n, w) ==
    [root |-> Root, oldPath |-> o, newPath |-> n, overwrite |-> w]

MoveRequests ==
    {MoveRequest(o, n, w) : o \in {SrcA, SrcNone, SrcSubA},
                            n \in {SrcSubA, SrcB, SrcA},
                            w \in BOOLEAN}

Call(op, ok) == [op |-> op, ok |-> ok]

\* the call of the move primitive, with the Result it returned
MoveCall(result) == [op |-> "moveFile", ok |-> result.isOk, result |-> result]

\* faulty variant, used to test the properties: no return after the source file failed to load
handleMoveFileNoLoadGate(request, mem, dsk) ==
    LET absoluteOldPath == pathJoin(request.root, request.oldPath)
        absoluteNewPath == pathJoin(request.root, request.newPath)
        loaded == getOrCreateSourceFileWithRefresh(mem, dsk, absoluteOldPath)
        mem1   == IF IsThrown(loaded) THEN mem ELSE loaded.mem
        moved  == moveFile(mem1, absoluteOldPath, absoluteNewPath, request.overwrite)
        find   == Call("findProjectForFile", TRUE)
        load   == Call("getOrCreateSourceFileWithRefresh", ~IsThrown(loaded))
    IN  IF ~moved.result.isOk
        THEN [next |-> "return", result |-> Err(moved.result.error), mem |-> mem1,
              calls |-> <<find, load, MoveCall(moved.result)>>]
        ELSE [next |-> "save", result |-> Ok(moved.result.value), mem |-> moved.mem,
              calls |-> <<find, load, MoveCall(moved.result), Call("save", TRUE)>>]

\* handleMoveFile up to `await project.save()`: what it returns, or that it
\* goes on to save, with the calls it made and the project as it leaves it
handleMoveFile(request, mem, dsk) ==
    LET absoluteOldPath == pathJoin(request.root, request.oldPath)
        absoluteNewPath == pathJoin(request.root, request.newPath)
        loaded == getOrCreateSourceFileWithRefresh(mem, dsk, absoluteOldPath)
        moved  == moveFile(loaded.mem, absoluteOldPath, absoluteNewPath,
                           request.overwrite)
        find   == Call("findProjectForFile", TRUE)
        load   == Call("getOrCreateSourceFileWithRefresh", ~IsThrown(loaded))
    IN  IF IsThrown(loaded)
        THEN [next |-> "return", result |-> Err(L_FileNotFound \o absoluteOldPath),
              mem |-> mem, calls |-> <<find, load>>]
        ELSE IF ~moved.result.isOk
        THEN [next |-> "return", result |-> Err(moved.result.error), mem |-> loaded.mem,
              calls |-> <<find, load, MoveCall(moved.result)>>]
        ELSE [next |-> "save", result |-> Ok(moved.result.value), mem |-> moved.mem,
              calls |-> <<find, load, MoveCall(moved.result), Call("save", TRUE)>>]

Pending == [state |-> "pending"]

Resolved(result) == [state |-> "resolved", result |-> result]

Rejected(reason) == [state |-> "rejected", reason |-> reason]

\* the calls of handleMoveFile, in the order they are made
MoveCalls == 1..MaxMoves

\* the move tool never called, on a project whose files are loaded
MoveUnused ==
    /\ mpc = [c \in MoveCalls |-> "idle"]
    /\ mreq = [c \in MoveCalls |-> MoveRequest(<<>>, <<>>, FALSE)]
    /\ mcalls = [c \in MoveCalls |-> <<>>]
    /\ mout = [c \in MoveCalls |-> Pending]
    /\ mval = [c \in MoveCalls |-> Ok([message |-> <<>>, changedFiles |-> <<>>])]
    /\ mdisk = [c \in MoveCalls |-> [entry |-> InitialFiles, exit |-> InitialFiles]]
    /\ pmem = InitialFiles
    /\ pdisk = InitialFiles

\* the move tool never called, the project's files loaded or not
MoveInitial ==
    /\ mpc = [c \in MoveCalls |-> "idle"]
    /\ mreq = [c \in MoveCalls |-> MoveRequest(<<>>, <<>>, FALSE)]
    /\ mcalls = [c \in MoveCalls |-> <<>>]
    /\ mout = [c \in MoveCalls |-> Pending]
    /\ mval = [c \in MoveCalls |-> Ok([message |-> <<>>, changedFiles |-> <<>>])]
    /\ mdisk = [c \in MoveCalls |-> [entry |-> InitialFiles, exit |-> InitialFiles]]
    /\ pmem \in {InitialFiles, <<>>}
    /\ pdisk = InitialFiles

\* call c of handleMoveFile from entry to its return or to the await of
\* project.save(); nothing keeps it from starting while an earlier call
\* awaits its save
MoveStart(c, request) ==
    /\ mpc[c] = "idle"
    /\ IF c = 1 THEN TRUE ELSE mpc[c - 1] # "idle"
    /\ LET run == handleMoveFile(request, pmem, pdisk)
       IN  /\ mreq' = [mreq EXCEPT ![c] = request]
           /\ mcalls' = [mcalls EXCEPT ![c] = run.calls]
           /\ pmem' = run.mem
           /\ mval' = [mval EXCEPT ![c] = run.result]
           /\ IF run.next = "return"
              THEN /\ mpc' = [mpc EXCEPT ![c] = "done"]
                   /\ mout' = [mout EXCEPT ![c] = Resolved(run.result)]
              ELSE /\ mpc' = [mpc EXCEPT ![c] = "saving"]
                   /\ mout' = [mout EXCEPT ![c] = Pending]
    /\ mdisk' = [mdisk EXCEPT ![c] = [entry |-> pdisk, exit |-> pdisk]]
    /\ UNCHANGED <<pdisk, hoverVars, fmtVars, reportVars>>

\* project.save() of call c resolves: the project as it is in memory is on
\* disk, the handler returns ok
MoveSaved(c) ==
    /\ mpc[c] = "saving"
    /\ pdisk' = pmem
    /\ mout' = [mout EXCEPT ![c] = Resolved(mval[c])]
    /\ mpc' = [mpc EXCEPT ![c] = "done"]
    /\ mdisk' = [mdisk EXCEPT ![c].exit = pmem]
    /\ UNCHANGED <<mreq, mcalls, mval, pmem, hoverVars, fmtVars, reportVars>>

\* project.save() of call c rejects: nothing catches it in handleMoveFile
MoveSaveFails(c) ==
    /\ mpc[c] = "saving"
    /\ mcalls' = [mcalls EXCEPT ![c][Len(mcalls[c])] = Call("save", FALSE)]
    /\ mout' = [mout EXCEPT ![c] = Rejected(L_EACCES)]
    /\ mpc' = [mpc EXCEPT ![c] = "done"]
    /\ mdisk' = [mdisk EXCEPT ![c].exit = pdisk]
    /\ UNCHANGED <<mreq, mval, pmem, pdisk, hoverVars, fmtVars, reportVars>>

NextMove ==
    \/ \E c \in MoveCalls, request \in MoveRequests : MoveStart(c, request)
    \/ \E c \in MoveCalls : MoveSaved(c)
    \/ \E c \in MoveCalls : MoveSaveFails(c)

(***************************************************************************)
(* The change report: analyzeImportChanges and formatMoveFileResult.       *)
(***************************************************************************)
L_Placeholder == <<" "," "," "," ","I","m","p","o","r","t"," ","s","t","a","t","e","m","e","n","t","s"," ","u","p","d","a","t","e","d">>

L_HunkMinus == <<" "," "," "," ","@","@"," ","-">>

L_HunkPlus == <<",","1"," ","+">>

L_HunkEnd == <<",","1"," ","@","@">>

L_Minus == <<" "," "," "," ","-"," ">>

L_Plus == <<" "," "," "," ","+"," ">>

L_UpdatedIn == <<"."," ","U","p","d","a","t","e","d"," ","i","m","p","o","r","t","s"," ","i","n"," ">>

L_Files == <<" ","f","i","l","e","(","s",")",".">>

L_Changes == <<"C","h","a","n","g","e","s",":">>

L_FileMoved == <<" "," ","F","i","l","e"," ","m","o","v","e","d",":"," ">>

L_Arrow == <<" ","→"," ">>

L_DotSlash == <<".","/">>

QuoteChars == {"'", "\"", BackQuote}

\* the characters the regular expression's \s matches: the ASCII white space,
\* the no-break space, the byte order mark, the line and paragraph separators
\* and the Unicode space separators (those the lexer cannot read are tokens)
WhiteSpace ==
    {" ", "\t", NL, "\r", "\f", "", " ", " ", "﻿",
     "<U+2000>", "<U+2001>", "<U+2002>", "<U+2003>", "<U+2004>", "<U+2005>",
     "<U+2006>", "<U+2007>", "<U+2008>", "<U+2009>", "<U+200A>", "<U+2028>",
     "<U+2029>", "<U+202F>", "<U+205F>", "<U+3000>"}

Keywords == <<<<"i","m","p","o","r","t">>, <<"f","r","o","m">>, <<"r","e","q","u","i","r","e">>>>

\* the first zero-based offset at or after p that holds no white space
RECURSIVE SkipSpace(_, _)
SkipSpace(line, p) ==
    IF p < Len(line) /\ line[p + 1] \in WhiteSpace
    THEN SkipSpace(line, p + 1) ELSE p

NoMatch == [matched |-> FALSE, capture |-> <<>>, end |-> 0]

\* importRegex tried at offset i: import, from or require, white space, an
\* optional parenthesis, a quote, one or more characters that are no quote
\* (the capture), a quote, an optional parenthesis
MatchAt(line, i) ==
    LET kws == {k \in DOMAIN Keywords :
                    /\ i + Len(Keywords[k]) <= Len(line)
                    /\ SubSeq(line, i + 1, i + Len(Keywords[k])) = Keywords[k]}
    IN  IF kws = {} THEN NoMatch
        ELSE LET p  == SkipSpace(line, i + Len(Keywords[Min(kws)]))
                 q  == IF p < Len(line) /\ line[p + 1] = "(" THEN p + 1 ELSE p
                 closing == {c \in (q + 1)..(Len(line) - 1) :
                                 line[c + 1] \in QuoteChars}
             IN  IF ~(q < Len(line) /\ line[q + 1] \in QuoteChars) THEN NoMatch
                 ELSE IF closing = {} \/ Min(closing) = q + 1 THEN NoMatch
                 ELSE LET c == Min(closing)
                      IN  [matched |-> TRUE,
                           capture |-> SubSeq(line, q + 2, c),
                           end     |-> IF c + 1 < Len(line) /\ line[c + 2] = ")"
                                       THEN c + 2 ELSE c + 1]

\* the captures of importRegex.exec(line) called until it returns null
RECURSIVE ExecAll(_, _)
ExecAll(line, lastIndex) ==
    LET hits == {i \in lastIndex..(Len(line) - 1) : MatchAt(line, i).matched}
    IN  IF hits = {} THEN <<>>
        ELSE <<MatchAt(line, Min(hits)).capture>>
                 \o ExecAll(line, MatchAt(line, Min(hits)).end)

\* the import line as it is taken to have read before the move
OldLine(line, importPath, file, oldPath) ==
    LET relativeOldPath ==
            ReplaceAllChars(pathRelative(pathDirname(file), oldPath), "\\", SLASH)
    IN  ReplaceFirst(line, importPath,
                     IF StartsWith(relativeOldPath, <<".">>)
                     THEN relativeOldPath
                     ELSE L_DotSlash \o relativeOldPath)

\* the body of the while loop for one match: a diff fragment or nothing
FragmentFor(line, lineNum, importPath, file, oldPath, newPath) ==
    LET fileDir == pathDirname(file)
        resolvedNewPath == pathResolve(fileDir, importPath)
        normalizedNewPath == pathNormalize(newPath)
        oldLine == OldLine(line, importPath, file, oldPath)
    IN  IF /\ \/ resolvedNewPath = normalizedNewPath
              \/ Includes(importPath, pathBasename(newPath, pathExtname(newPath)))
           /\ oldLine # line
        THEN << L_HunkMinus \o Digits(lineNum) \o L_HunkPlus \o Digits(lineNum)
                    \o L_HunkEnd,
                L_Minus \o oldLine,
                L_Plus \o line >>
        ELSE <<>>

\* the flatMap callback: the fragments of one line
LineChanges(line, lineNum, file, oldPath, newPath) ==
    LET captures == ExecAll(line, 0)
    IN  Cat([k \in DOMAIN captures |->
                FragmentFor(line, lineNum, captures[k], file, oldPath, newPath)])

\* analyzeImportChanges, given what fs.readFile settled with
analyzeImportChanges(file, oldPath, newPath, contentResult) ==
    IF ~contentResult.isOk THEN Ok(<<L_Placeholder>>)
    ELSE LET lines == SplitOn(contentResult.value, NL)
             importChanges ==
                 Cat([i \in DOMAIN lines |->
                         LineChanges(lines[i], i, file, oldPath, newPath)])
         IN  Ok(IF Len(importChanges) > 0 THEN importChanges
                ELSE <<L_Placeholder>>)

\* the block of the moved file itself
MovedBlock(oldPath, newPath, root) ==
    Ok(<< L_FileMoved \o pathRelative(root, oldPath) \o L_Arrow
              \o pathRelative(root, newPath) >>)

\* the block of any other changed file, once its read has settled
FileBlock(file, oldPath, newPath, root, contentResult) ==
    LET relativePath   == pathRelative(root, file)
        importAnalysis == analyzeImportChanges(file, oldPath, newPath, contentResult)
    IN  IF ~importAnalysis.isOk THEN Err(importAnalysis.error)
        ELSE Ok(<<<<" ", " ">> \o relativePath \o <<":">>>> \o importAnalysis.value)

\* the first three lines of the report
ReportHead(message, n) ==
    << message \o L_UpdatedIn \o Digits(n) \o L_Files, <<>>, L_Changes >>

\* the loop over fileResults: the first error returned, else every block pushed
RECURSIVE PushAll(_, _)
PushAll(output, fileResults) ==
    IF fileResults = <<>> THEN Ok(JoinWith(output, <<NL>>))
    ELSE IF ~Head(fileResults).isOk THEN Err(Head(fileResults).error)
    ELSE PushAll(output \o Head(fileResults).value, Tail(fileResults))

\* faulty variant, used to test the properties: the blocks pushed in the order their promises settled
AssembleAsSettled(input, slots, order) ==
    PushAll(ReportHead(input.result.message, Len(input.result.changedFiles)),
            [k \in DOMAIN order |-> slots[order[k]].result])

\* what formatMoveFileResult returns once Promise.all has resolved
Assemble(input, slots, order) ==
    PushAll(ReportHead(input.result.message, Len(input.result.changedFiles)),
            [i \in DOMAIN slots |-> slots[i].result])

\* the files on disk after the move from src/a.ts to src/sub/a.ts: b.ts had
\* `import {x} from "./a"` and now has the rewritten specifier; c.ts imports
\* another module
ImporterLine == <<"i","m","p","o","r","t"," ","{","x","}"," ","f","r","o","m"," ","\"",".","/","s","u","b","/","a","\"">>

ImporterLineBefore == <<"i","m","p","o","r","t"," ","{","x","}"," ","f","r","o","m"," ","\"",".","/","a","\"">>

OtherLine == <<"i","m","p","o","r","t"," ","{","z","}"," ","f","r","o","m"," ","\"",".","/","z","e","d","\"">>

FileOnDisk(file) ==
    IF file = pathJoin(Root, SrcB) THEN ImporterLine \o <<NL>>
    ELSE OtherLine \o <<NL>>

\* fs.readFile(file, "utf-8") as it settles
readFile(file, readable) ==
    IF readable THEN Ok(FileOnDisk(file)) ELSE Err(ENOENT(file))

ChangedFileLists ==
    StringsUpTo({pathJoin(Root, SrcA), pathJoin(Root, SrcB), pathJoin(Root, SrcC)},
                MaxChanged)

ReportInput(changedFiles) ==
    [result  |-> [message |-> L_Moved, changedFiles |-> changedFiles],
     oldPath |-> pathJoin(Root, SrcA),
     newPath |-> pathJoin(Root, SrcSubA),
     root    |-> Root]

ReportInitial ==
    /\ rpc = "idle"
    /\ rin = ReportInput(<<>>)
    /\ rslot = <<>>
    /\ rreads = <<>>
    /\ rorder = <<>>
    /\ rfail = {}
    /\ rout = Pending

\* the indices of a list that satisfy a test, in order
RECURSIVE IndicesWhere(_, _, _)
IndicesWhere(list, i, wanted) ==
    IF i > Len(list) THEN <<>>
    ELSE (IF list[i] = wanted THEN <<i>> ELSE <<>>)
             \o IndicesWhere(list, i + 1, wanted)

RECURSIVE Without(_, _)
Without(list, unwanted) ==
    IF list = <<>> THEN <<>>
    ELSE (IF Head(list) = unwanted THEN <<>> ELSE <<Head(list)>>)
             \o Without(Tail(list), unwanted)

\* formatMoveFileResult up to `await Promise.all(...)`: the moved file's block
\* is there at once, a read is started for every other changed file
ReportStart(changedFiles) ==
    /\ rpc = "idle"
    /\ LET input == ReportInput(changedFiles)
       IN  /\ rin' = input
           /\ rslot' = [i \in DOMAIN changedFiles |->
                          IF changedFiles[i] = input.oldPath
                          THEN Resolved(MovedBlock(input.oldPath, input.newPath,
                                                   input.root))
                          ELSE Pending]
           /\ rreads' = Without(changedFiles, input.oldPath)
           /\ rorder' = IndicesWhere(changedFiles, 1, input.oldPath)
    /\ rpc' = "reading"
    /\ UNCHANGED <<rfail, rout, hoverVars, fmtVars, moveVars>>

\* one file's read settles, read or failed, and its block with it
ReadSettles(i, readable) ==
    /\ rpc = "reading"
    /\ i \in DOMAIN rslot
    /\ rslot[i] = Pending
    /\ LET file == rin.result.changedFiles[i]
       IN  rslot' = [rslot EXCEPT ![i] =
                        Resolved(FileBlock(file, rin.oldPath, rin.newPath, rin.root,
                                           readFile(file, readable)))]
    /\ rorder' = Append(rorder, i)
    /\ rfail' = IF readable THEN rfail ELSE rfail \cup {i}
    /\ UNCHANGED <<rpc, rin, rreads, rout, hoverVars, fmtVars, moveVars>>

\* Promise.all resolves and the report is put together
ReportFinish ==
    /\ rpc = "reading"
    /\ \A i \in DOMAIN rslot : rslot[i] # Pending
    /\ rout' = Resolved(Assemble(rin, rslot, rorder))
    /\ rpc' = "done"
    /\ UNCHANGED <<rin, rslot, rreads, rorder, rfail, hoverVars, fmtVars, moveVars>>

NextReport ==
    \/ \E changedFiles \in ChangedFileLists : ReportStart(changedFiles)
    \/ \E i \in 1..MaxChanged : \E readable \in BOOLEAN : ReadSettles(i, readable)
    \/ ReportFinish

(***************************************************************************)
(* formatHoverContents applied to contents of every shape.                 *)
(***************************************************************************)
Alphabet == {"a", "b", NL}

Strings == StringsUpTo(Alphabet, MaxStrLen)

Fragments ==
    {PlainString(t) : t \in Strings}
        \cup {LanguageString(<<"t","s">>, t) : t \in Strings}

HoverContents ==
    {PlainString(t) : t \in Strings}
        \cup {MarkupContent("markdown", t) : t \in Strings}
        \cup {LanguageString(<<"t","s">>, t) : t \in Strings}
        \cup {FragmentArray(items) : items \in StringsUpTo(Fragments, MaxFrags)}

FormatInitial ==
    /\ fin \in HoverContents
    /\ fout = [done |-> FALSE, text |-> <<>>]

\* formatHoverContents never called
FormatUnused ==
    /\ fin = PlainString(<<>>)
    /\ fout = [done |-> FALSE, text |-> <<>>]

FormatContents ==
    /\ ~fout.done
    /\ fout' = [done |-> TRUE, text |-> formatHoverContents(fin)]
    /\ UNCHANGED <<fin, hoverVars, moveVars, reportVars>>


(***************************************************************************)
(* The specifications: each tool on its own, the others never called.      *)
(***************************************************************************)
\* one request at a time, as section 5 of the design has it: any request
NextHover ==
    \/ \E request \in HoverRequests : HoverStart(1, request)
    \/ HoverDelayElapsed(1)
    \/ HoverIssueQuery(1)
    \/ HoverAnswer(1)
    \/ RewriteFile

\* the requests drawn when several are in flight together
ConcurrentRequests ==
    { HoverRequest(FooTs, NoLine, Bar),
      HoverRequest(FooTs, LineNumber(2), Bar) }

\* requests interleaved at their awaits
NextConcurrent ==
    \/ \E r \in Requests : \E request \in ConcurrentRequests : HoverStart(r, request)
    \/ \E r \in Requests : HoverDelayElapsed(r)
    \/ \E r \in Requests : HoverIssueQuery(r)
    \/ \E r \in Requests : HoverAnswer(r)
    \/ RewriteFile

NextFormat == FormatContents

InitHover == HoverInitial /\ FormatUnused /\ MoveUnused /\ ReportInitial

InitFormat == HoverUnused /\ FormatInitial /\ MoveUnused /\ ReportInitial

InitMove == HoverUnused /\ FormatUnused /\ MoveInitial /\ ReportInitial

InitReport == HoverUnused /\ FormatUnused /\ MoveUnused /\ ReportInitial

\* hover requests one at a time
SpecHover == InitHover /\ [][NextHover]_vars

\* hover requests in flight together
SpecConcurrent == InitHover /\ [][NextConcurrent]_vars

\* formatHoverContents on every contents drawn
SpecFormat == InitFormat /\ [][NextFormat]_vars

\* the move handler called again and again
SpecMove == InitMove /\ [][NextMove]_vars

\* the change report with its reads settling in any order
SpecReport == InitReport /\ [][NextReport]_vars

(***************************************************************************)
(* Properties of the hover tool.                                           *)
(***************************************************************************)
\* the causes of failure a request can meet before it opens the document
NoSessionFor(r) == ~session

UnreadableFor(r) == session /\ ~hsrc[r].exists

ResolutionFailsFor(r) ==
    /\ session
    /\ hsrc[r].exists
    /\ LET lines == SplitOn(hsrc[r].text, NL)
       IN  IF hreq[r].line.kind = "undefined"
           THEN \A i \in DOMAIN lines : ~Includes(lines[i], hreq[r].target)
           ELSE LET lr == parseLineNumber(lines, hreq[r].line)
                IN  \/ "error" \in DOMAIN lr
                    \/ ~Includes(lines[lr.lineIndex + 1], hreq[r].target)

FailsEarly(r) == NoSessionFor(r) \/ UnreadableFor(r) \/ ResolutionFailsFor(r)

CallsOf(r, op) == {i \in DOMAIN hcalls[r] : hcalls[r][i].op = op}

\* C1: a request issues at most one getHover, and only after it opened the
\* same URI with the full text it read and after its timer fired; a request
\* with no session, an unreadable file or a failed resolution calls neither
\* openDocument nor getHover.
C1_QueryAfterOpenAndDelay ==
    \A r \in Requests :
        /\ Cardinality(CallsOf(r, "getHover")) <= 1
        /\ \A i \in CallsOf(r, "getHover") :
              \E j \in CallsOf(r, "openDocument") :
                 \E k \in CallsOf(r, "setTimeout") :
                    /\ j < k
                    /\ k < i
                    /\ hcalls[r][j].uri = hcalls[r][i].uri
                    /\ hcalls[r][j].uri =
                         L_FileScheme \o pathResolve(hreq[r].root, hreq[r].filePath)
                    /\ hcalls[r][j].text = hsrc[r].text
        /\ (hpc[r] # "idle" /\ FailsEarly(r)) =>
              /\ hpc[r] = "done"
              /\ hcalls[r] = <<>>
        /\ (hpc[r] # "idle" /\ ~FailsEarly(r)) =>
              Cardinality(CallsOf(r, "openDocument")) = 1

C1_Witness ==
    /\ hpc[1] = "done"
    /\ hres[1].isOk
    /\ Len(hcalls[1]) = 3
    /\ hcalls[1][3].op = "getHover"

\* C2: a null answer gives a success with hover = null and the message
\* `No hover information available for "<target>" at <filePath>:<line>:<column>`
\* with the one-based resolved position; no session, an unreadable file or a
\* failed resolution give an error value; the two are never conflated.
C2_NullIsNotFailure ==
    \A r \in Requests :
        hpc[r] = "done" =>
            /\ hans[r].kind = "null" =>
                  /\ hres[r].isOk
                  /\ hres[r].value.hover = [isNull |-> TRUE]
                  /\ hres[r].value.message =
                        L_NoHover \o hreq[r].target \o <<"\"", " ", "a", "t", " ">>
                            \o hreq[r].filePath \o <<":">>
                            \o Digits(hctx[r].line + 1) \o <<":">>
                            \o Digits(hctx[r].character + 1)
                  /\ (hreq[r].line = NoLine /\ hsrc[r].text = TextA) =>
                        Str(hres[r].value.message) =
                            "No hover information available for \"bar\" at foo.ts:2:1"
            /\ FailsEarly(r) =>
                  /\ ~hres[r].isOk
                  /\ hans[r] = NoAnswer
            /\ (hres[r].isOk /\ hres[r].value.hover.isNull) => hans[r].kind = "null"

C2_Witness ==
    /\ hpc[1] = "done"
    /\ hans[1].kind = "null"
    /\ hres[1].isOk
    /\ hreq[1].line = NoLine
    /\ hsrc[1].text = TextA

\* C4: every line and character of a returned range is at least 1.
C4_RangeIsOneBased ==
    \A r \in Requests :
        (hpc[r] = "done" /\ hres[r].isOk /\ ~hres[r].value.hover.isNull) =>
            LET range == hres[r].value.hover.range
            IN  /\ range.start.line >= 1
                /\ range.start.character >= 1
                /\ range.end.line >= 1
                /\ range.end.character >= 1

\* C5: every resolver failure returned carries the request's file path, and
\* the line number when the request or the resolver has one.
C5_ResolverFailureCarriesFile ==
    \A r \in Requests :
        (hpc[r] = "done" /\ ResolutionFailsFor(r)) =>
            /\ ~hres[r].isOk
            /\ Includes(hres[r].error, hreq[r].filePath)
            /\ hreq[r].line.kind = "number" =>
                  Includes(hres[r].error, Digits(hreq[r].line.n))

\* C10 as claimed: whenever a request issues getHover, the server holds the
\* text in which the request resolved its position.
C10_ServerHoldsResolvedText ==
    \A r \in Requests :
        \A i \in CallsOf(r, "getHover") :
            hcalls[r][i].held = [open |-> TRUE, text |-> hctx[r].text]

\* C10 amended: the server holds the text in which the request resolved its
\* position when no other request reopened that URI between the request's
\* openDocument and its getHover, whatever happened to the file on disk.
C10_HoldsUnlessReopened ==
    \A r \in Requests :
        \A i \in CallsOf(r, "getHover") :
            ~hovl[r] =>
                /\ hcalls[r][i].held = [open |-> TRUE, text |-> hctx[r].text]
                /\ hcalls[r][i].position.line + 1
                       <= Len(SplitOn(hcalls[r][i].held.text, NL))
                /\ hcalls[r][i].position.character
                       < Len(SplitOn(hcalls[r][i].held.text, NL)
                                [hcalls[r][i].position.line + 1])

C10_Witness ==
    \E r \in Requests :
        /\ CallsOf(r, "getHover") # {}
        /\ ~hovl[r]
        /\ writes > 0
        /\ disk # FileWith(hctx[r].text)
        /\ \E q \in Requests : q # r /\ hpc[q] # "idle"

(***************************************************************************)
(* Properties of formatHoverContents.                                      *)
(***************************************************************************)
\* the strings of an array's fragments, read off the fragments
ValueAt(items, i) ==
    IF items[i].shape = "string" THEN items[i].text ELSE items[i].value

\* where fragment i starts in the joined string (zero-based)
RECURSIVE OffsetOf(_, _)
OffsetOf(items, i) ==
    IF i = 1 THEN 0
    ELSE OffsetOf(items, i - 1) + Len(ValueAt(items, i - 1)) + 1

\* C3: a plain string s, the array [s] and a markup object with value s all
\* format to s; an array formats to its fragments' strings in array order
\* with one newline between neighbours.
C3_ShapeIndependent ==
    fout.done =>
        /\ \A t \in Strings :
              fin \in { PlainString(t),
                        FragmentArray(<<PlainString(t)>>),
                        MarkupContent("markdown", t) } => fout.text = t
        /\ fin.shape = "array" =>
              LET items == fin.items
                  n     == Len(items)
              IN  /\ Len(fout.text) =
                        IF n = 0 THEN 0
                        ELSE OffsetOf(items, n) + Len(ValueAt(items, n))
                  /\ \A i \in 1..n :
                        SubSeq(fout.text, OffsetOf(items, i) + 1,
                               OffsetOf(items, i) + Len(ValueAt(items, i)))
                            = ValueAt(items, i)
                  /\ \A i \in 2..n : fout.text[OffsetOf(items, i)] = NL

C3_Witness ==
    /\ fout.done
    /\ fin = FragmentArray(<<PlainString(<<"a">>), LanguageString(<<"t","s">>, <<"b">>)>>)
    /\ Str(fout.text) = "a\nb"

(***************************************************************************)
(* Properties of handleMoveFile.                                           *)
(***************************************************************************)
MoveCallsOf(c, op) == {i \in DOMAIN mcalls[c] : mcalls[c][i].op = op}

AbsoluteOld(c) == pathJoin(mreq[c].root, mreq[c].oldPath)

\* C6: in every call the move primitive is called only after the source file
\* was loaded, and save only after the primitive returned success; a failed
\* load returns `File not found: <absolute old path>` with neither called, a
\* failed move returns the primitive's own error with save never called, and
\* in both cases the disk is, when the call returns, as it was when it began.
C6_MoveIsGated ==
    \A c \in MoveCalls :
        /\ \A i \in MoveCallsOf(c, "moveFile") :
              \E j \in MoveCallsOf(c, "getOrCreateSourceFileWithRefresh") :
                 j < i /\ mcalls[c][j].ok
        /\ \A i \in MoveCallsOf(c, "save") :
              \E j \in MoveCallsOf(c, "moveFile") : j < i /\ mcalls[c][j].ok
        /\ (mpc[c] # "idle" /\ AbsoluteOld(c) \notin DOMAIN mdisk[c].entry) =>
              /\ mpc[c] = "done"
              /\ mout[c] = Resolved(Err(L_FileNotFound \o AbsoluteOld(c)))
              /\ MoveCallsOf(c, "moveFile") = {}
              /\ MoveCallsOf(c, "save") = {}
              /\ mdisk[c].exit = mdisk[c].entry
        /\ \A i \in MoveCallsOf(c, "moveFile") :
              ~mcalls[c][i].ok =>
                 /\ mpc[c] = "done"
                 /\ mout[c] = Resolved(Err(mcalls[c][i].result.error))
                 /\ MoveCallsOf(c, "save") = {}
                 /\ mdisk[c].exit = mdisk[c].entry

C6_Witness ==
    \E c \in MoveCalls :
        /\ mpc[c] = "done"
        /\ mreq[c] = MoveRequest(SrcA, SrcB, FALSE)
        /\ mout[c].state = "resolved"
        /\ ~mout[c].result.isOk
        /\ Str(mout[c].result.error) = "DestinationExists: /r/src/b.ts"
        /\ Len(mcalls[c]) = 3

\* C9: whichever step of handleMoveFile fails, its promise resolves to an
\* error value and never rejects.
C9_FailuresAreErrValues ==
    \A c \in MoveCalls :
        mpc[c] = "done" =>
            /\ mout[c].state = "resolved"
            /\ (\E i \in DOMAIN mcalls[c] : ~mcalls[c][i].ok) => ~mout[c].result.isOk

(***************************************************************************)
(* Properties of the change report.                                        *)
(***************************************************************************)
\* a line that opens a block: indented by two spaces exactly
IsBlockHead(l) == Len(l) >= 3 /\ l[1] = " " /\ l[2] = " " /\ l[3] # " "

\* a line inside a block: indented by four spaces
IsBodyLine(l) == Len(l) >= 5 /\ \A k \in 1..4 : l[k] = " "

\* the lines cut into blocks, a block running up to the next line that opens one
RECURSIVE Blocks(_)
Blocks(lines) ==
    IF lines = <<>> THEN <<>>
    ELSE LET heads == {k \in 2..Len(lines) : IsBlockHead(lines[k])}
             stop  == IF heads = {} THEN Len(lines) + 1 ELSE Min(heads)
         IN  <<SubSeq(lines, 1, stop - 1)>>
                 \o Blocks(SubSeq(lines, stop, Len(lines)))

ReportLines == SplitOn(rout.result.value, NL)

ReportBlocks == Blocks(SubSeq(ReportLines, 4, Len(ReportLines)))

ChangedFiles == rin.result.changedFiles

\* C7: the report always succeeds and holds one block per changed file, in the
\* order of changedFiles, however the reads settle: the moved file gives the
\* one line `File moved: old -> new` and no read; every other file gives its
\* relative path and at least one line, the placeholder when its read failed
\* or no import matches.
C7_OneBlockPerFileInOrder ==
    /\ rpc # "idle" => rreads = Without(ChangedFiles, rin.oldPath)
    /\ rpc = "done" =>
          /\ rout.state = "resolved"
          /\ rout.result.isOk
          /\ Len(ReportLines) >= 3
          /\ SubSeq(ReportLines, 1, 3) =
                << rin.result.message \o L_UpdatedIn
                       \o Digits(Len(ChangedFiles)) \o L_Files,
                   <<>>, L_Changes >>
          /\ Len(ReportBlocks) = Len(ChangedFiles)
          /\ \A i \in DOMAIN ChangedFiles :
                LET block == ReportBlocks[i]
                    file  == ChangedFiles[i]
                IN  IF file = rin.oldPath
                    THEN /\ Len(block) = 1
                         /\ Str(block[1]) = "  File moved: src/a.ts → src/sub/a.ts"
                    ELSE /\ block[1] = <<" ", " ">> \o pathRelative(rin.root, file)
                                           \o <<":">>
                         /\ Len(block) >= 2
                         /\ \A k \in 2..Len(block) : IsBodyLine(block[k])
                         /\ (i \in rfail \/ file = pathJoin(Root, SrcC)) =>
                               /\ Len(block) = 2
                               /\ Str(block[2]) = "    Import statements updated"

C7_Witness ==
    /\ rpc = "done"
    /\ ChangedFiles = <<pathJoin(Root, SrcB), pathJoin(Root, SrcA), pathJoin(Root, SrcC)>>
    /\ rorder = <<2, 3, 1>>
    /\ rfail = {1}
    /\ Len(ReportBlocks) = 3

\* C8: the importer's block shows the current import line as the `+` line and
\* the import line as it was before the move, specifier ./a, as the `-` line.
C8_OldLineIsTheLineBefore ==
    rpc = "done" =>
        \A i \in DOMAIN ChangedFiles :
            (ChangedFiles[i] = pathJoin(Root, SrcB) /\ i \notin rfail) =>
                /\ i <= Len(ReportBlocks)
                /\ ReportBlocks[i] =
                      << <<" ", " ">> \o SrcB \o <<":">>,
                         L_HunkMinus \o <<"1">> \o L_HunkPlus \o <<"1">> \o L_HunkEnd,
                         L_Minus \o ImporterLineBefore,
                         L_Plus \o ImporterLine >>

=============================================================================
